---- MODULE Spec2Model ----
(***************************************************************************)
(* A model of pyoxidizer/src/starlark/python_distribution.rs: the          *)
(* PythonDistribution handle (lazily resolved distribution, lazily created *)
(* bytecode compiler), its two Starlark constructors and its capability    *)
(* methods.                                                                *)
(*                                                                         *)
(* handles  the PythonDistribution values the configuration script holds   *)
(* allocs   per handle, how many snapshots and compilers were ever created *)
(*          for it (the identity of the Arc / BytecodeCompiler objects)    *)
(* last     the call that was made last: its arguments, what it returned,  *)
(*          which external collaborators it invoked and what they returned *)
(***************************************************************************)
EXTENDS Naturals, Sequences, FiniteSets, TLC

VARIABLES handles, allocs, last

vars == <<handles, allocs, last>>

\* Number of handles the script holds.
MaxHandles == 1

(***************************************************************************)
(* Starlark values.  Every value has a type name (get_type), a string form *)
(* (to_string) and, for lists and dicts, its items; a dict holds its keys  *)
(* and values alternating.                                                 *)
(***************************************************************************)
NoneValue == [type |-> "NoneType", str |-> "None", items |-> << >>]

StringValue(s) == [type |-> "string", str |-> s, items |-> << >>]

BoolValue(b) == [type |-> "bool", str |-> IF b THEN "True" ELSE "False", items |-> << >>]

ListValue(xs) == [type |-> "list", str |-> "[..]", items |-> xs]

DictValue(kvs) == [type |-> "dict", str |-> "{..}", items |-> kvs]

ObjectValue(t) == [type |-> t, str |-> t, items |-> << >>]

get_type(v) == v.type

to_string(v) == v.str

\* s occurs in msg
Contains(msg, s) ==
    \E i \in 1..(Len(msg) + 1) :
        /\ i + Len(s) - 1 <= Len(msg)
        /\ SubSeq(msg, i, i + Len(s) - 1) = s

(***************************************************************************)
(* Errors: RuntimeError {code, message, label}.                            *)
(***************************************************************************)
INCORRECT_PARAMETER_TYPE_ERROR_CODE == "INCORRECT_PARAMETER_TYPE_ERROR_CODE"

RuntimeError(code, message, label) ==
    [code |-> code, message |-> message, label |-> label]

NoError == [code |-> "", message |-> "", label |-> ""]

\* The ? operator over a chain of checks: the first error of errs, if any.
RECURSIVE FirstError(_)
FirstError(errs) ==
    IF errs = << >> THEN NoError
    ELSE IF Head(errs) # NoError THEN Head(errs)
    ELSE FirstError(Tail(errs))

(***************************************************************************)
(* The argument marshaller (super::util).  Each check answers NoError or   *)
(* the error naming the parameter, the expected and the actual shape.      *)
(***************************************************************************)
ShapeError(name, expected, v) ==
    RuntimeError(INCORRECT_PARAMETER_TYPE_ERROR_CODE,
                 "function expects " \o expected \o " for " \o name
                     \o "; got type " \o get_type(v),
                 "expect type " \o expected \o "; got " \o get_type(v))

required_str_arg(name, v) ==
    IF get_type(v) = "string" THEN NoError ELSE ShapeError(name, "a string", v)

optional_str_arg(name, v) ==
    IF get_type(v) \in {"NoneType", "string"} THEN NoError
    ELSE ShapeError(name, "an optional string", v)

required_bool_arg(name, v) ==
    IF get_type(v) = "bool" THEN NoError ELSE ShapeError(name, "a bool", v)

optional_type_arg(name, typeName, v) ==
    IF get_type(v) \in {"NoneType", typeName} THEN NoError
    ELSE ShapeError(name, "an optional " \o typeName, v)

AllOfType(items, typeName) ==
    \A i \in 1..Len(items) : get_type(items[i]) = typeName

required_list_arg(name, itemType, v) ==
    IF get_type(v) = "list" /\ AllOfType(v.items, itemType) THEN NoError
    ELSE ShapeError(name, "a list of " \o itemType, v)

optional_list_arg(name, itemType, v) ==
    IF get_type(v) = "NoneType" THEN NoError
    ELSE required_list_arg(name, itemType, v)

optional_dict_arg(name, keyType, valueType, v) ==
    IF get_type(v) = "NoneType" THEN NoError
    ELSE IF /\ get_type(v) = "dict"
            /\ \A i \in 1..Len(v.items) :
                   get_type(v.items[i]) = (IF i % 2 = 1 THEN keyType ELSE valueType)
         THEN NoError
    ELSE ShapeError(name, "an optional dict of " \o keyType \o " to " \o valueType, v)

(***************************************************************************)
(* DistributionFlavor and PythonDistributionLocation.  A location is       *)
(* Local {local_path, sha256} or Url {url, sha256}; addr is the path or    *)
(* the url.                                                                *)
(***************************************************************************)
DistributionFlavor == {"Standalone", "StandaloneStatic", "StandaloneDynamic"}

Local(local_path, sha256) == [sha256 |-> sha256, variant |-> "Local", addr |-> local_path]

Url(url, sha256) == [sha256 |-> sha256, variant |-> "Url", addr |-> url]

(***************************************************************************)
(* The environment of the script: BUILD_TARGET_TRIPLE, and CONTEXT's       *)
(* python_distributions_path.                                              *)
(***************************************************************************)
BUILD_TARGET_TRIPLE == "x86_64-unknown-linux-gnu"

python_distributions_path == "build/python_distributions"

\* The registry of known distributions (crate::python_distributions).
KnownDistributions ==
    { <<"Standalone", "x86_64-unknown-linux-gnu">>,
      <<"Standalone", "x86_64-pc-windows-msvc">>,
      <<"StandaloneStatic", "x86_64-pc-windows-msvc">>,
      <<"StandaloneDynamic", "x86_64-pc-windows-msvc">> }

find_distribution(triple, flavor) ==
    Url("https://distributions/" \o triple \o "/" \o flavor, "sha256:" \o triple \o "/" \o flavor)

\* default_distribution_location(): the location, or the error's message.
default_distribution_location(flavor, build_target) ==
    IF <<flavor, build_target>> \in KnownDistributions
    THEN [message |-> "", ok |-> TRUE, location |-> find_distribution(build_target, flavor)]
    ELSE [message |-> "could not find default Python distribution for " \o build_target,
          ok |-> FALSE, location |-> Url("", "")]

(***************************************************************************)
(* The handle.  distribution and compiler are the two Option slots; an     *)
(* object is named by the handle it was created for and its serial number. *)
(***************************************************************************)
NoObject == [owner |-> 0, serial |-> 0]

Object(owner, serial) == [owner |-> owner, serial |-> serial]

\* Option::None of the distribution slot and of the compiler slot.  A compiler
\* remembers the snapshot it was created from.
NoDistribution == NoObject

NoCompiler == [owner |-> 0, serial |-> 0, dist |-> NoObject]

from_location(flavor, location, dest_dir) ==
    [flavor |-> flavor, dest_dir |-> dest_dir, source |-> location,
     distribution |-> NoDistribution, compiler |-> NoCompiler]

\* What a constructor returns: Ok(handle) or Err(error).
NoHandle == from_location("", Url("", ""), "")

CtorOk(handle) == [ok |-> TRUE, stage |-> "done", err |-> NoError, value |-> handle]

CtorErr(stage, err) == [ok |-> FALSE, stage |-> stage, err |-> err, value |-> NoHandle]

\* default_python_distribution() with a message that leaves the value out.
default_python_distribution_terse(flavor, build_target) ==
    LET shape == FirstError(<<required_str_arg("flavor", flavor),
                              optional_str_arg("build_target", build_target)>>)
        triple == IF get_type(build_target) = "NoneType" THEN BUILD_TARGET_TRIPLE
                  ELSE to_string(build_target)
        v == to_string(flavor)
        parsed == CASE v = "standalone" -> "Standalone"
                    [] v = "standalone_static" -> "StandaloneStatic"
                    [] v = "standalone_dynamic" -> "StandaloneDynamic"
                    [] OTHER -> ""
        location == default_distribution_location(parsed, triple)
    IN  IF shape # NoError THEN CtorErr("shape", shape)
        ELSE IF parsed = ""
        THEN CtorErr("value", RuntimeError("PYOXIDIZER_BUILD",
                                           "unknown distribution flavor",
                                           "default_python_distribution()"))
        ELSE IF ~location.ok
        THEN CtorErr("value", RuntimeError("PYOXIDIZER_BUILD", location.message,
                                           "default_python_distribution()"))
        ELSE CtorOk(from_location(parsed, location.location, python_distributions_path))

\* default_python_distribution() that looks build_target over and always
\* takes the triple of the environment.
default_python_distribution_ambient(flavor, build_target) ==
    LET shape == FirstError(<<required_str_arg("flavor", flavor),
                              optional_str_arg("build_target", build_target)>>)
        triple == BUILD_TARGET_TRIPLE
        v == to_string(flavor)
        parsed == CASE v = "standalone" -> "Standalone"
                    [] v = "standalone_static" -> "StandaloneStatic"
                    [] v = "standalone_dynamic" -> "StandaloneDynamic"
                    [] OTHER -> ""
        location == default_distribution_location(parsed, triple)
    IN  IF shape # NoError THEN CtorErr("shape", shape)
        ELSE IF parsed = ""
        THEN CtorErr("value", RuntimeError("PYOXIDIZER_BUILD",
                                           "unknown distribution flavor " \o v,
                                           "default_python_distribution()"))
        ELSE IF ~location.ok
        THEN CtorErr("value", RuntimeError("PYOXIDIZER_BUILD", location.message,
                                           "default_python_distribution()"))
        ELSE CtorOk(from_location(parsed, location.location, python_distributions_path))

default_python_distribution(flavor, build_target) ==
    LET shape == FirstError(<<required_str_arg("flavor", flavor),
                              optional_str_arg("build_target", build_target)>>)
        triple == IF get_type(build_target) = "NoneType" THEN BUILD_TARGET_TRIPLE
                  ELSE to_string(build_target)
        v == to_string(flavor)
        parsed == CASE v = "standalone" -> "Standalone"
                    [] v = "standalone_static" -> "StandaloneStatic"
                    [] v = "standalone_dynamic" -> "StandaloneDynamic"
                    [] OTHER -> ""
        location == default_distribution_location(parsed, triple)
    IN  IF shape # NoError THEN CtorErr("shape", shape)
        ELSE IF parsed = ""
        THEN CtorErr("value", RuntimeError("PYOXIDIZER_BUILD",
                                           "unknown distribution flavor " \o v,
                                           "default_python_distribution()"))
        ELSE IF ~location.ok
        THEN CtorErr("value", RuntimeError("PYOXIDIZER_BUILD", location.message,
                                           "default_python_distribution()"))
        ELSE CtorOk(from_location(parsed, location.location, python_distributions_path))

\* from_args() matching the flavor before it checks local_path against url.
from_args_flavor_first(sha256, local_path, url, flavor) ==
    LET shape == FirstError(<<required_str_arg("sha256", sha256),
                              optional_str_arg("local_path", local_path),
                              optional_str_arg("url", url),
                              required_str_arg("flavor", flavor)>>)
        distribution == IF get_type(local_path) # "NoneType"
                        THEN Local(to_string(local_path), to_string(sha256))
                        ELSE Url(to_string(url), to_string(sha256))
        v == to_string(flavor)
    IN  IF shape # NoError THEN CtorErr("shape", shape)
        ELSE IF v # "standalone"
        THEN CtorErr("value", RuntimeError("PYOXIDIZER_BUILD",
                                           "invalid distribution flavor " \o v,
                                           "PythonDistribution()"))
        ELSE IF get_type(local_path) # "NoneType" /\ get_type(url) # "NoneType"
        THEN CtorErr("value", RuntimeError(INCORRECT_PARAMETER_TYPE_ERROR_CODE,
                                           "cannot define both local_path and url",
                                           "cannot define both local_path and url"))
        ELSE CtorOk(from_location("Standalone", distribution, python_distributions_path))

\* from_args() choosing the variant by url instead of by local_path.
from_args_url_first(sha256, local_path, url, flavor) ==
    LET shape == FirstError(<<required_str_arg("sha256", sha256),
                              optional_str_arg("local_path", local_path),
                              optional_str_arg("url", url),
                              required_str_arg("flavor", flavor)>>)
        distribution == IF get_type(url) # "NoneType"
                        THEN Url(to_string(url), to_string(sha256))
                        ELSE Local(to_string(local_path), to_string(sha256))
        v == to_string(flavor)
    IN  IF shape # NoError THEN CtorErr("shape", shape)
        ELSE IF get_type(local_path) # "NoneType" /\ get_type(url) # "NoneType"
        THEN CtorErr("value", RuntimeError(INCORRECT_PARAMETER_TYPE_ERROR_CODE,
                                           "cannot define both local_path and url",
                                           "cannot define both local_path and url"))
        ELSE IF v # "standalone"
        THEN CtorErr("value", RuntimeError("PYOXIDIZER_BUILD",
                                           "invalid distribution flavor " \o v,
                                           "PythonDistribution()"))
        ELSE CtorOk(from_location("Standalone", distribution, python_distributions_path))

\* from_args() checking local_path against url before the shapes.
from_args_exclusion_first(sha256, local_path, url, flavor) ==
    LET shape == FirstError(<<required_str_arg("sha256", sha256),
                              optional_str_arg("local_path", local_path),
                              optional_str_arg("url", url),
                              required_str_arg("flavor", flavor)>>)
        distribution == IF get_type(local_path) # "NoneType"
                        THEN Local(to_string(local_path), to_string(sha256))
                        ELSE Url(to_string(url), to_string(sha256))
        v == to_string(flavor)
    IN  IF get_type(local_path) # "NoneType" /\ get_type(url) # "NoneType"
        THEN CtorErr("value", RuntimeError(INCORRECT_PARAMETER_TYPE_ERROR_CODE,
                                           "cannot define both local_path and url",
                                           "cannot define both local_path and url"))
        ELSE IF shape # NoError THEN CtorErr("shape", shape)
        ELSE IF v # "standalone"
        THEN CtorErr("value", RuntimeError("PYOXIDIZER_BUILD",
                                           "invalid distribution flavor " \o v,
                                           "PythonDistribution()"))
        ELSE CtorOk(from_location("Standalone", distribution, python_distributions_path))

\* from_args() matching the three flavors default_python_distribution() does.
from_args_all_flavors(sha256, local_path, url, flavor) ==
    LET shape == FirstError(<<required_str_arg("sha256", sha256),
                              optional_str_arg("local_path", local_path),
                              optional_str_arg("url", url),
                              required_str_arg("flavor", flavor)>>)
        distribution == IF get_type(local_path) # "NoneType"
                        THEN Local(to_string(local_path), to_string(sha256))
                        ELSE Url(to_string(url), to_string(sha256))
        v == to_string(flavor)
        parsed == CASE v = "standalone" -> "Standalone"
                    [] v = "standalone_static" -> "StandaloneStatic"
                    [] v = "standalone_dynamic" -> "StandaloneDynamic"
                    [] OTHER -> ""
    IN  IF shape # NoError THEN CtorErr("shape", shape)
        ELSE IF get_type(local_path) # "NoneType" /\ get_type(url) # "NoneType"
        THEN CtorErr("value", RuntimeError(INCORRECT_PARAMETER_TYPE_ERROR_CODE,
                                           "cannot define both local_path and url",
                                           "cannot define both local_path and url"))
        ELSE IF parsed = ""
        THEN CtorErr("value", RuntimeError("PYOXIDIZER_BUILD",
                                           "invalid distribution flavor " \o v,
                                           "PythonDistribution()"))
        ELSE CtorOk(from_location(parsed, distribution, python_distributions_path))

from_args(sha256, local_path, url, flavor) ==
    LET shape == FirstError(<<required_str_arg("sha256", sha256),
                              optional_str_arg("local_path", local_path),
                              optional_str_arg("url", url),
                              required_str_arg("flavor", flavor)>>)
        distribution == IF get_type(local_path) # "NoneType"
                        THEN Local(to_string(local_path), to_string(sha256))
                        ELSE Url(to_string(url), to_string(sha256))
        v == to_string(flavor)
    IN  IF shape # NoError THEN CtorErr("shape", shape)
        ELSE IF get_type(local_path) # "NoneType" /\ get_type(url) # "NoneType"
        THEN CtorErr("value", RuntimeError(INCORRECT_PARAMETER_TYPE_ERROR_CODE,
                                           "cannot define both local_path and url",
                                           "cannot define both local_path and url"))
        ELSE IF v # "standalone"
        THEN CtorErr("value", RuntimeError("PYOXIDIZER_BUILD",
                                           "invalid distribution flavor " \o v,
                                           "PythonDistribution()"))
        ELSE CtorOk(from_location("Standalone", distribution, python_distributions_path))

(***************************************************************************)
(* Lazy resolution.  resolve_distribution() is external: resolves says     *)
(* whether it succeeds this time.  The answer carries the handle as the    *)
(* call leaves it, the handle's allocation counts, and the resolver calls  *)
(* made (none or one), each with the arguments it was given.               *)
(***************************************************************************)
ResolverCall(self) ==
    [flavor |-> self.flavor, dest_dir |-> self.dest_dir, source |-> self.source]

\* ensure_distribution_resolved() without its is_some() early return.
ensure_distribution_resolved_unchecked(self, h, made, resolves) ==
    IF ~resolves
    THEN [ok |-> FALSE, self |-> self, made |-> made, resolver |-> <<ResolverCall(self)>>]
    ELSE [ok |-> TRUE,
          self |-> [self EXCEPT !.distribution = Object(h, made.snapshots + 1)],
          made |-> [made EXCEPT !.snapshots = @ + 1],
          resolver |-> <<ResolverCall(self)>>]

\* ensure_distribution_resolved() filling the slot before it looks at the
\* resolver's answer, so that a failure stays in the handle.
ensure_distribution_resolved_cached(self, h, made, resolves) ==
    IF self.distribution # NoDistribution
    THEN [ok |-> TRUE, self |-> self, made |-> made, resolver |-> << >>]
    ELSE [ok |-> resolves,
          self |-> [self EXCEPT !.distribution = Object(h, made.snapshots + 1)],
          made |-> [made EXCEPT !.snapshots = @ + 1],
          resolver |-> <<ResolverCall(self)>>]

ensure_distribution_resolved(self, h, made, resolves) ==
    IF self.distribution # NoDistribution
    THEN [ok |-> TRUE, self |-> self, made |-> made, resolver |-> << >>]
    ELSE IF ~resolves
    THEN [ok |-> FALSE, self |-> self, made |-> made, resolver |-> <<ResolverCall(self)>>]
    ELSE [ok |-> TRUE,
          self |-> [self EXCEPT !.distribution = Object(h, made.snapshots + 1)],
          made |-> [made EXCEPT !.snapshots = @ + 1],
          resolver |-> <<ResolverCall(self)>>]

(***************************************************************************)
(* What a call on a handle leaves behind: the handle and its allocation    *)
(* counts, Ok(value) or Err(err), the stage the call ended in ("shape",    *)
(* "value", "resolve", "create", "config", "collaborator" or "done"), and  *)
(* the external calls it made.                                             *)
(***************************************************************************)
NoValue == << >>

Outcome(self, made, ok, stage, err, value, resolver, collab) ==
    [ok |-> ok, stage |-> stage, err |-> err, value |-> value, self |-> self,
     made |-> made, resolver |-> resolver, collab |-> collab]

CollabCall(fn, dist) == [dist |-> dist, fn |-> fn]

\* An anyhow error: a message, no code and no label.
AnyhowError(message) == RuntimeError("", message, "")

\* compile_bytecode() without its is_none() check: a compiler per call.
compile_bytecode_fresh(self, h, made, env) ==
    LET r == ensure_distribution_resolved(self, h, made, env.resolves)
        fresh == [owner |-> h, serial |-> r.made.compilers + 1, dist |-> r.self.distribution]
        self2 == [r.self EXCEPT !.compiler = fresh]
        made2 == [r.made EXCEPT !.compilers = @ + 1]
        calls == <<CollabCall("create_bytecode_compiler", r.self.distribution),
                   CollabCall("compile", fresh)>>
    IN  IF ~r.ok
        THEN Outcome(r.self, r.made, FALSE, "resolve", AnyhowError("resolve_distribution failed"),
                     NoValue, r.resolver, << >>)
        ELSE IF ~env.creates
        THEN Outcome(r.self, r.made, FALSE, "create",
                     AnyhowError("create_bytecode_compiler failed"), NoValue, r.resolver,
                     <<CollabCall("create_bytecode_compiler", r.self.distribution)>>)
        ELSE IF ~env.compiles
        THEN Outcome(self2, made2, FALSE, "collaborator", AnyhowError("compile failed"),
                     NoValue, r.resolver, calls)
        ELSE Outcome(self2, made2, TRUE, "done", NoError, <<"bytecode">>, r.resolver, calls)

\* compile_bytecode() with one compiler for the whole process: the one made
\* for the first handle, which every handle then keeps in its slot.
compile_bytecode_shared(self, h, made, env) ==
    LET r == ensure_distribution_resolved(self, h, made, env.resolves)
        fresh == [owner |-> 1, serial |-> 1, dist |-> Object(1, 1)]
        create == r.self.distribution # NoDistribution /\ r.self.compiler = NoCompiler
        self2 == IF create THEN [r.self EXCEPT !.compiler = fresh] ELSE r.self
        made2 == IF create THEN [r.made EXCEPT !.compilers = @ + 1] ELSE r.made
    IN  IF ~r.ok
        THEN Outcome(r.self, r.made, FALSE, "resolve", AnyhowError("resolve_distribution failed"),
                     NoValue, r.resolver, << >>)
        ELSE IF create /\ ~env.creates
        THEN Outcome(r.self, r.made, FALSE, "create",
                     AnyhowError("create_bytecode_compiler failed"), NoValue, r.resolver,
                     <<CollabCall("create_bytecode_compiler", r.self.distribution)>>)
        ELSE LET calls == (IF create
                           THEN <<CollabCall("create_bytecode_compiler", r.self.distribution)>>
                           ELSE << >>) \o <<CollabCall("compile", self2.compiler)>>
             IN  IF ~env.compiles
                 THEN Outcome(self2, made2, FALSE, "collaborator", AnyhowError("compile failed"),
                              NoValue, r.resolver, calls)
                 ELSE Outcome(self2, made2, TRUE, "done", NoError, <<"bytecode">>,
                              r.resolver, calls)

\* compile_bytecode() filling the compiler slot before it looks at what
\* create_bytecode_compiler() answered, so that a failed creation stays.
compile_bytecode_keep_failed(self, h, made, env) ==
    LET r == ensure_distribution_resolved(self, h, made, env.resolves)
        fresh == [owner |-> h, serial |-> r.made.compilers + 1, dist |-> r.self.distribution]
        create == r.self.distribution # NoDistribution /\ r.self.compiler = NoCompiler
        self2 == IF create THEN [r.self EXCEPT !.compiler = fresh] ELSE r.self
        made2 == IF create THEN [r.made EXCEPT !.compilers = @ + 1] ELSE r.made
    IN  IF ~r.ok
        THEN Outcome(r.self, r.made, FALSE, "resolve", AnyhowError("resolve_distribution failed"),
                     NoValue, r.resolver, << >>)
        ELSE IF create /\ ~env.creates
        THEN Outcome(self2, made2, FALSE, "create",
                     AnyhowError("create_bytecode_compiler failed"), NoValue, r.resolver,
                     <<CollabCall("create_bytecode_compiler", r.self.distribution)>>)
        ELSE LET calls == (IF create
                           THEN <<CollabCall("create_bytecode_compiler", r.self.distribution)>>
                           ELSE << >>) \o <<CollabCall("compile", self2.compiler)>>
             IN  IF ~env.compiles
                 THEN Outcome(self2, made2, FALSE, "collaborator", AnyhowError("compile failed"),
                              NoValue, r.resolver, calls)
                 ELSE Outcome(self2, made2, TRUE, "done", NoError, <<"bytecode">>,
                              r.resolver, calls)

\* env.creates: create_bytecode_compiler() succeeds; env.compiles: compile() does.
compile_bytecode(self, h, made, env) ==
    LET r == ensure_distribution_resolved(self, h, made, env.resolves)
        fresh == [owner |-> h, serial |-> r.made.compilers + 1, dist |-> r.self.distribution]
        create == r.self.distribution # NoDistribution /\ r.self.compiler = NoCompiler
        self2 == IF create THEN [r.self EXCEPT !.compiler = fresh] ELSE r.self
        made2 == IF create THEN [r.made EXCEPT !.compilers = @ + 1] ELSE r.made
    IN  IF ~r.ok
        THEN Outcome(r.self, r.made, FALSE, "resolve", AnyhowError("resolve_distribution failed"),
                     NoValue, r.resolver, << >>)
        ELSE IF create /\ ~env.creates
        THEN Outcome(r.self, r.made, FALSE, "create",
                     AnyhowError("create_bytecode_compiler failed"), NoValue, r.resolver,
                     <<CollabCall("create_bytecode_compiler", r.self.distribution)>>)
        ELSE IF self2.compiler = NoCompiler
        THEN Outcome(self2, made2, FALSE, "create",
                     AnyhowError("bytecode compiler should exist"), NoValue, r.resolver, << >>)
        ELSE LET calls == (IF create
                           THEN <<CollabCall("create_bytecode_compiler", r.self.distribution)>>
                           ELSE << >>) \o <<CollabCall("compile", self2.compiler)>>
             IN  IF ~env.compiles
                 THEN Outcome(self2, made2, FALSE, "collaborator", AnyhowError("compile failed"),
                              NoValue, r.resolver, calls)
                 ELSE Outcome(self2, made2, TRUE, "done", NoError, <<"bytecode">>,
                              r.resolver, calls)

(***************************************************************************)
(* Enum parsing and the resources the collaborators return.                *)
(***************************************************************************)
StartsWith(s, prefix) ==
    Len(prefix) <= Len(s) /\ SubSeq(s, 1, Len(prefix)) = prefix

\* ExtensionModuleFilter::try_from(&str)
ExtensionModuleFilter_try_from(v) ==
    IF v \in {"minimal", "all", "no-libraries", "no-gpl"}
    THEN [message |-> "", ok |-> TRUE]
    ELSE [message |-> v \o " is not a valid extension module filter", ok |-> FALSE]

\* PythonResourcesPolicy::try_from(&str)
PythonResourcesPolicy_try_from(v) ==
    IF \/ v = "in-memory-only"
       \/ StartsWith(v, "filesystem-relative-only:")
       \/ StartsWith(v, "prefer-in-memory-fallback-filesystem-relative:")
    THEN [message |-> "", ok |-> TRUE]
    ELSE [message |-> "invalid value for resources policy: " \o v, ok |-> FALSE]

\* A resource: a source module, a package resource (name within package) or
\* an extension module; package is the dotted package that owns it.
Resource(kind, name, package, is_package) ==
    [name |-> name, kind |-> kind, package |-> package, is_package |-> is_package]

\* package is p or nested under p
InPackage(package, p) == package = p \/ StartsWith(package, p \o ".")

STDLIB_TEST_PACKAGES == {"test", "lib2to3.tests"}

is_stdlib_test_package(package) ==
    \E p \in STDLIB_TEST_PACKAGES : InPackage(package, p)

\* PythonResource::is_in_packages(): a module by its full name, any other
\* resource by its package.
is_in_packages(x, packages) ==
    \E i \in 1..Len(packages) :
        InPackage(IF x.kind = "SourceModule" THEN x.name ELSE x.package, packages[i])

\* python_resource_to_value(), and the Value::new(Python..) of the methods.
python_resource_to_value(x) == [type |-> "Python" \o x.kind, resource |-> x]

RECURSIVE FilterInPackages(_, _)
FilterInPackages(xs, packages) ==
    IF xs = << >> THEN << >>
    ELSE (IF is_in_packages(Head(xs), packages) THEN <<Head(xs)>> ELSE << >>)
         \o FilterInPackages(Tail(xs), packages)

ToValues(xs) == [i \in 1..Len(xs) |-> python_resource_to_value(xs[i])]

(***************************************************************************)
(* The capability methods.  env is what the outside does in this call:     *)
(* env.resolves (resolve_distribution succeeds), env.collab (the method's  *)
(* collaborator succeeds), env.result (the list the collaborator returns), *)
(* env.configures (the PythonInterpreterConfig() factory succeeds).        *)
(***************************************************************************)
Invalid(self, made, stage, err) ==
    Outcome(self, made, FALSE, stage, err, NoValue, << >>, << >>)

\* The error every method maps a failed ensure_distribution_resolved() to.
Unresolved(r) ==
    Outcome(r.self, r.made, FALSE, "resolve",
            RuntimeError("PYOXIDIZER_BUILD", "resolve_distribution failed",
                         "resolve_distribution()"),
            NoValue, r.resolver, << >>)

\* Delegate() taking the snapshot out of the slot for the call and putting it
\* back only when the collaborator succeeds.
Delegate_take(r, fn, succeeds, err, value) ==
    IF succeeds
    THEN Outcome(r.self, r.made, TRUE, "done", NoError, value, r.resolver,
                 <<CollabCall(fn, r.self.distribution)>>)
    ELSE Outcome([r.self EXCEPT !.distribution = NoDistribution], r.made, FALSE,
                 "collaborator", err, NoValue, r.resolver,
                 <<CollabCall(fn, r.self.distribution)>>)

\* Delegate() handing back what was marshalled so far along with the error.
Delegate_partial(r, fn, succeeds, err, value) ==
    IF succeeds
    THEN Outcome(r.self, r.made, TRUE, "done", NoError, value, r.resolver,
                 <<CollabCall(fn, r.self.distribution)>>)
    ELSE Outcome(r.self, r.made, FALSE, "collaborator", err, value, r.resolver,
                 <<CollabCall(fn, r.self.distribution)>>)

\* The one collaborator call of a method, on the resolved snapshot.
Delegate(r, fn, succeeds, err, value) ==
    IF succeeds
    THEN Outcome(r.self, r.made, TRUE, "done", NoError, value, r.resolver,
                 <<CollabCall(fn, r.self.distribution)>>)
    ELSE Outcome(r.self, r.made, FALSE, "collaborator", err, NoValue, r.resolver,
                 <<CollabCall(fn, r.self.distribution)>>)

\* extension_modules() parsing its filter after the distribution is resolved.
extension_modules_resolve_first(self, h, made, filter, preferred_variants, env) ==
    LET shape == FirstError(<<required_str_arg("filter", filter),
                              optional_dict_arg("preferred_variants", "string", "string",
                                                preferred_variants)>>)
        parsed == ExtensionModuleFilter_try_from(to_string(filter))
        r == ensure_distribution_resolved(self, h, made, env.resolves)
    IN  IF shape # NoError THEN Invalid(self, made, "shape", shape)
        ELSE IF ~r.ok THEN Unresolved(r)
        ELSE IF ~parsed.ok
        THEN Outcome(r.self, r.made, FALSE, "value",
                     RuntimeError(INCORRECT_PARAMETER_TYPE_ERROR_CODE, parsed.message,
                                  "invalid policy value"),
                     NoValue, r.resolver, << >>)
        ELSE Delegate(r, "filter_extension_modules", env.collab,
                      RuntimeError("PYOXIDIZER_BUILD", "filter_extension_modules failed",
                                   "extension_modules()"),
                      ToValues(env.result))

extension_modules(self, h, made, filter, preferred_variants, env) ==
    LET shape == FirstError(<<required_str_arg("filter", filter),
                              optional_dict_arg("preferred_variants", "string", "string",
                                                preferred_variants)>>)
        parsed == ExtensionModuleFilter_try_from(to_string(filter))
        r == ensure_distribution_resolved(self, h, made, env.resolves)
    IN  IF shape # NoError THEN Invalid(self, made, "shape", shape)
        ELSE IF ~parsed.ok
        THEN Invalid(self, made, "value",
                     RuntimeError(INCORRECT_PARAMETER_TYPE_ERROR_CODE, parsed.message,
                                  "invalid policy value"))
        ELSE IF ~r.ok THEN Unresolved(r)
        ELSE Delegate(r, "filter_extension_modules", env.collab,
                      RuntimeError("PYOXIDIZER_BUILD", "filter_extension_modules failed",
                                   "extension_modules()"),
                      ToValues(env.result))

pip_install(self, h, made, args, extra_envs, env) ==
    LET shape == FirstError(<<required_list_arg("args", "string", args),
                              optional_dict_arg("extra_envs", "string", "string", extra_envs)>>)
        r == ensure_distribution_resolved(self, h, made, env.resolves)
    IN  IF shape # NoError THEN Invalid(self, made, "shape", shape)
        ELSE IF ~r.ok THEN Unresolved(r)
        ELSE Delegate(r, "pip_install", env.collab,
                      RuntimeError("PIP_INSTALL_ERROR",
                                   "error running pip install: " \o "pip_install failed",
                                   "pip_install()"),
                      ToValues(env.result))

\* read_package_root() collecting the resources package by package, in the
\* order of the packages argument.
RECURSIVE ByPackage(_, _)
ByPackage(xs, packages) ==
    IF packages = << >> THEN << >>
    ELSE FilterInPackages(xs, <<Head(packages)>>) \o ByPackage(xs, Tail(packages))

read_package_root_by_package(self, h, made, path, packages, env) ==
    LET shape == FirstError(<<required_str_arg("path", path),
                              required_list_arg("packages", "string", packages)>>)
        names == [i \in 1..Len(packages.items) |-> to_string(packages.items[i])]
        r == ensure_distribution_resolved(self, h, made, env.resolves)
    IN  IF shape # NoError THEN Invalid(self, made, "shape", shape)
        ELSE IF ~r.ok THEN Unresolved(r)
        ELSE Delegate(r, "find_resources", env.collab,
                      RuntimeError("PACKAGE_ROOT_ERROR",
                                   "could not find resources: " \o "find_resources failed",
                                   "read_package_root()"),
                      ToValues(ByPackage(env.result, names)))

read_package_root(self, h, made, path, packages, env) ==
    LET shape == FirstError(<<required_str_arg("path", path),
                              required_list_arg("packages", "string", packages)>>)
        names == [i \in 1..Len(packages.items) |-> to_string(packages.items[i])]
        r == ensure_distribution_resolved(self, h, made, env.resolves)
    IN  IF shape # NoError THEN Invalid(self, made, "shape", shape)
        ELSE IF ~r.ok THEN Unresolved(r)
        ELSE Delegate(r, "find_resources", env.collab,
                      RuntimeError("PACKAGE_ROOT_ERROR",
                                   "could not find resources: " \o "find_resources failed",
                                   "read_package_root()"),
                      ToValues(FilterInPackages(env.result, names)))

\* read_virtualenv() calling its collaborator whether or not the distribution
\* was resolved, and looking at the resolver's answer afterwards.
read_virtualenv_delegate_first(self, h, made, path, env) ==
    LET shape == required_str_arg("path", path)
        r == ensure_distribution_resolved(self, h, made, env.resolves)
        out == Delegate(r, "read_virtualenv", env.collab,
                        RuntimeError("VIRTUALENV_ERROR",
                                     "could not find resources: " \o "read_virtualenv failed",
                                     "read_virtualenv()"),
                        ToValues(env.result))
    IN  IF shape # NoError THEN Invalid(self, made, "shape", shape)
        ELSE IF ~r.ok THEN [Unresolved(r) EXCEPT !.collab = out.collab]
        ELSE out

read_virtualenv(self, h, made, path, env) ==
    LET shape == required_str_arg("path", path)
        r == ensure_distribution_resolved(self, h, made, env.resolves)
    IN  IF shape # NoError THEN Invalid(self, made, "shape", shape)
        ELSE IF ~r.ok THEN Unresolved(r)
        ELSE Delegate(r, "read_virtualenv", env.collab,
                      RuntimeError("VIRTUALENV_ERROR",
                                   "could not find resources: " \o "read_virtualenv failed",
                                   "read_virtualenv()"),
                      ToValues(env.result))

RECURSIVE FilterTests(_, _)
FilterTests(datas, include_test) ==
    IF datas = << >> THEN << >>
    ELSE (IF ~include_test /\ is_stdlib_test_package(Head(datas).package) THEN << >>
          ELSE <<Head(datas)>>) \o FilterTests(Tail(datas), include_test)

\* package_resources() that leaves include_test out of its filter.
package_resources_unfiltered(self, h, made, include_test, env) ==
    LET shape == required_bool_arg("include_test", include_test)
        r == ensure_distribution_resolved(self, h, made, env.resolves)
    IN  IF shape # NoError THEN Invalid(self, made, "shape", shape)
        ELSE IF ~r.ok THEN Unresolved(r)
        ELSE Delegate(r, "resource_datas", env.collab,
                      RuntimeError("PYTHON_DISTRIBUTION", "resource_datas failed",
                                   "resource_datas failed"),
                      ToValues(FilterTests(env.result, TRUE)))

package_resources(self, h, made, include_test, env) ==
    LET shape == required_bool_arg("include_test", include_test)
        r == ensure_distribution_resolved(self, h, made, env.resolves)
    IN  IF shape # NoError THEN Invalid(self, made, "shape", shape)
        ELSE IF ~r.ok THEN Unresolved(r)
        ELSE Delegate(r, "resource_datas", env.collab,
                      RuntimeError("PYTHON_DISTRIBUTION", "resource_datas failed",
                                   "resource_datas failed"),
                      ToValues(FilterTests(env.result, to_string(include_test) = "True")))

\* Path::is_absolute() and PathBuf::join()
is_absolute(path) == StartsWith(path, "/")

CWD == "/cwd"

setup_py_install(self, h, made, package_path, extra_envs, extra_global_arguments, env) ==
    LET shape == FirstError(<<required_str_arg("package_path", package_path),
                              optional_dict_arg("extra_envs", "string", "string", extra_envs),
                              optional_list_arg("extra_global_arguments", "string",
                                                extra_global_arguments)>>)
        path == IF is_absolute(to_string(package_path)) THEN to_string(package_path)
                ELSE CWD \o "/" \o to_string(package_path)
        r == ensure_distribution_resolved(self, h, made, env.resolves)
        out == Delegate(r, "setup_py_install", env.collab,
                        RuntimeError("SETUP_PY_ERROR", "setup_py_install failed",
                                     "setup_py_install()"),
                        ToValues(env.result))
    IN  IF shape # NoError THEN Invalid(self, made, "shape", shape)
        ELSE IF ~r.ok THEN Unresolved(r)
        ELSE [out EXCEPT !.collab = <<[dist |-> r.self.distribution, fn |-> "setup_py_install",
                                       package_path |-> path]>>]

source_modules(self, h, made, env) ==
    LET r == ensure_distribution_resolved(self, h, made, env.resolves)
    IN  IF ~r.ok THEN Unresolved(r)
        ELSE Delegate(r, "source_modules", env.collab,
                      RuntimeError("PYTHON_DISTRIBUTION", "source_modules failed",
                                   "source_modules failed"),
                      ToValues(env.result))

\* to_python_executable(); a is the record of the ten script arguments.
as_python_executable_starlark(self, h, made, a, env) ==
    LET shape == FirstError(<<
            required_str_arg("name", a.name),
            required_str_arg("resources_policy", a.resources_policy),
            optional_type_arg("config", "PythonInterpreterConfig", a.config),
            required_str_arg("extension_module_filter", a.extension_module_filter),
            optional_dict_arg("preferred_extension_module_variants", "string", "string",
                              a.preferred_extension_module_variants),
            required_bool_arg("include_sources", a.include_sources),
            required_bool_arg("include_resources", a.include_resources),
            required_bool_arg("include_test", a.include_test)>>)
        policy == PythonResourcesPolicy_try_from(to_string(a.resources_policy))
        filter == ExtensionModuleFilter_try_from(to_string(a.extension_module_filter))
        r == ensure_distribution_resolved(self, h, made, env.resolves)
        defaulted == get_type(a.config) = "NoneType"
        exe == [type |-> "PythonExecutable",
                name |-> to_string(a.name),
                include_test |-> to_string(a.include_test) = "True",
                resources_policy |-> to_string(a.resources_policy),
                config |-> IF defaulted THEN "PythonInterpreterConfig()" ELSE to_string(a.config),
                extension_module_filter |-> to_string(a.extension_module_filter),
                include_sources |-> to_string(a.include_sources) = "True",
                include_resources |-> to_string(a.include_resources) = "True"]
    IN  IF shape # NoError THEN Invalid(self, made, "shape", shape)
        ELSE IF ~policy.ok
        THEN Invalid(self, made, "value",
                     RuntimeError("PYOXIDIZER_BUILD", policy.message, "resources_policy"))
        ELSE IF ~filter.ok
        THEN Invalid(self, made, "value",
                     RuntimeError(INCORRECT_PARAMETER_TYPE_ERROR_CODE, filter.message,
                                  "invalid policy value"))
        ELSE IF ~r.ok THEN Unresolved(r)
        ELSE IF defaulted /\ ~env.configures
        THEN Outcome(r.self, r.made, FALSE, "config",
                     RuntimeError("PythonInterpreterConfig", "PythonInterpreterConfig() failed",
                                  "PythonInterpreterConfig()"),
                     NoValue, r.resolver, << >>)
        ELSE Delegate(r, "as_python_executable_builder", env.collab,
                      RuntimeError("PYOXIDIZER_BUILD", "as_python_executable_builder failed",
                                   "to_python_executable()"),
                      exe)

(***************************************************************************)
(* The arguments a script passes, and what the collaborators return.       *)
(***************************************************************************)
FlavorArgs ==
    {StringValue("standalone"), StringValue("standalone_static"),
     StringValue("standalone_dynamic"), StringValue("bogus"), BoolValue(FALSE)}

BuildTargetArgs ==
    {NoneValue, StringValue("x86_64-pc-windows-msvc"), StringValue("bogus-triple"),
     BoolValue(FALSE)}

Sha256Args == {StringValue("sha256"), BoolValue(FALSE)}

LocalPathArgs ==
    {NoneValue, StringValue("some_path"), StringValue("local_path_value"), BoolValue(FALSE)}

UrlArgs == {NoneValue, StringValue("some_url"), StringValue("url_value"), BoolValue(FALSE)}

FilterArgs == {StringValue("all"), StringValue("bogus-filter"), BoolValue(FALSE)}

DictArgs ==
    {NoneValue, DictValue(<<StringValue("k"), StringValue("v")>>),
     DictValue(<<StringValue("k"), BoolValue(TRUE)>>)}

StringListArgs == {ListValue(<<StringValue("pyflakes==2.1.1")>>), ListValue(<<BoolValue(TRUE)>>)}

PackagesArgs ==
    {ListValue(<<StringValue("foo"), StringValue("bar")>>),
     ListValue(<<StringValue("bar"), StringValue("foo")>>),
     NoneValue}

PathArgs == {StringValue("root"), StringValue("/abs/root"), BoolValue(FALSE)}

BoolArgs == {BoolValue(TRUE), BoolValue(FALSE), StringValue("yes")}

OptionalListArgs == {NoneValue, StringValue("not-a-list")}

\* to_python_executable(name): the defaults of the signature.
ExeDefaults ==
    [name |-> StringValue("exe"),
     include_test |-> BoolValue(FALSE),
     resources_policy |-> StringValue("in-memory-only"),
     config |-> NoneValue,
     extension_module_filter |-> StringValue("all"),
     preferred_extension_module_variants |-> NoneValue,
     include_sources |-> BoolValue(TRUE),
     include_resources |-> BoolValue(FALSE)]

\* Calls that give one argument another value, and calls with two bad ones.
ExeArgs ==
    {ExeDefaults}
    \cup {[ExeDefaults EXCEPT !.name = NoneValue]}
    \cup {[ExeDefaults EXCEPT !.resources_policy = v] :
             v \in {StringValue("bogus-policy"), BoolValue(FALSE)}}
    \cup {[ExeDefaults EXCEPT !.config = v] :
             v \in {ObjectValue("PythonInterpreterConfig"), StringValue("not-a-config")}}
    \cup {[ExeDefaults EXCEPT !.extension_module_filter = v] :
             v \in {StringValue("bogus-filter"), BoolValue(FALSE)}}
    \cup {[ExeDefaults EXCEPT !.preferred_extension_module_variants = v] :
             v \in {DictValue(<<StringValue("k"), StringValue("v")>>),
                    StringValue("not-a-dict")}}
    \cup {[ExeDefaults EXCEPT !.include_sources = StringValue("yes")]}
    \cup {[ExeDefaults EXCEPT !.include_resources = StringValue("yes")]}
    \cup {[ExeDefaults EXCEPT !.include_test = v] :
             v \in {BoolValue(TRUE), StringValue("yes")}}
    \cup {[ExeDefaults EXCEPT !.resources_policy = StringValue("bogus-policy"),
                              !.extension_module_filter = StringValue("bogus-filter")]}
    \cup {[ExeDefaults EXCEPT !.extension_module_filter = StringValue("bogus-filter"),
                              !.include_test = StringValue("yes")]}

\* The tree of test_read_package_root_simple in discovery order, and another.
Discovered ==
    { <<Resource("SourceModule", "bar", "bar", TRUE),
        Resource("SourceModule", "baz", "", FALSE),
        Resource("SourceModule", "extra", "extra", TRUE),
        Resource("SourceModule", "foo", "", FALSE)>>,
      <<Resource("SourceModule", "foo", "", FALSE),
        Resource("SourceModule", "foobar", "", FALSE),
        Resource("SourceModule", "bar.sub", "bar", FALSE),
        Resource("PackageResource", "data.txt", "bar", FALSE)>> }

Installed == { <<Resource("SourceModule", "pyflakes", "pyflakes", TRUE)>> }

ResourceDatas ==
    { <<Resource("PackageResource", "a.txt", "json", FALSE)>>,
      <<Resource("PackageResource", "b.txt", "test", FALSE),
        Resource("PackageResource", "a.txt", "json", FALSE),
        Resource("PackageResource", "c.txt", "test.support", FALSE),
        Resource("PackageResource", "d.txt", "testing", FALSE)>> }

SourceModules ==
    { <<Resource("SourceModule", "os", "", FALSE),
        Resource("SourceModule", "json", "json", TRUE)>> }

ExtensionModules == { <<Resource("ExtensionModule", "_ssl", "", FALSE)>> }

\* What the outside does during one call.
Env(resolves, collab, result) ==
    [resolves |-> resolves, collab |-> collab, creates |-> TRUE, compiles |-> TRUE,
     result |-> result, configures |-> TRUE]

QuietEnv == Env(TRUE, TRUE, << >>)

\* A call that fails validation consults nothing outside: one Env stands for all.
Envs(stage, results) ==
    IF stage \in {"shape", "value"} THEN {QuietEnv}
    ELSE {Env(resolves, collab, result) :
             resolves \in BOOLEAN, collab \in BOOLEAN, result \in results}

(***************************************************************************)
(* The state machine.  The script holds MaxHandles handles, each returned  *)
(* by a constructor call, and calls constructors and methods in any order. *)
(***************************************************************************)
\* The handles the script holds.
Handles == DOMAIN handles

InitHandle(h) ==
    CASE h % 3 = 1 -> from_args(StringValue("sha256"), StringValue("some_path"), NoneValue,
                                StringValue("standalone")).value
      [] h % 3 = 2 -> default_python_distribution(StringValue("standalone"), NoneValue).value
      [] OTHER -> from_args(StringValue("sha256"), NoneValue, StringValue("some_url"),
                            StringValue("standalone")).value

NoCall ==
    [ok |-> TRUE, stage |-> "done", err |-> NoError, value |-> NoValue, self |-> 0,
     resolver |-> << >>, collab |-> << >>, args |-> << >>, op |-> "", returned |-> << >>]

Init ==
    /\ handles = [h \in 1..MaxHandles |-> InitHandle(h)]
    /\ allocs = [h \in 1..MaxHandles |-> [snapshots |-> 0, compilers |-> 0]]
    /\ last = NoCall

\* A script that holds a handle from each constructor.
PairInit ==
    /\ handles = <<InitHandle(1), InitHandle(2)>>
    /\ allocs = [h \in DOMAIN handles |-> [snapshots |-> 0, compilers |-> 0]]
    /\ last = NoCall

\* A constructor call: it returns a handle or an error and touches no handle.
Construct(op, args, out) ==
    /\ last' = [ok |-> out.ok, stage |-> out.stage, err |-> out.err, value |-> out.value,
                self |-> 0, resolver |-> << >>, collab |-> << >>, args |-> args, op |-> op,
                returned |-> << >>]
    /\ UNCHANGED <<handles, allocs>>

\* What the collaborator of a call handed back: env.result when the call got
\* as far as receiving it.
Returned(out, env) == IF out.stage = "done" THEN env.result ELSE << >>

\* A call on handle h; returned is the list its collaborator handed back.
Call(op, h, args, out, returned) ==
    /\ handles' = [handles EXCEPT ![h] = out.self]
    /\ allocs' = [allocs EXCEPT ![h] = out.made]
    /\ last' = [ok |-> out.ok, stage |-> out.stage, err |-> out.err, value |-> out.value,
                self |-> h, resolver |-> out.resolver, collab |-> out.collab, args |-> args,
                op |-> op, returned |-> returned]

DefaultPythonDistribution ==
    \E flavor \in FlavorArgs, build_target \in BuildTargetArgs :
        Construct("default_python_distribution",
                  [flavor |-> flavor, build_target |-> build_target],
                  default_python_distribution(flavor, build_target))

FromArgs ==
    \E sha256 \in Sha256Args, local_path \in LocalPathArgs, url \in UrlArgs,
       flavor \in FlavorArgs :
        Construct("PythonDistribution",
                  [local_path |-> local_path, sha256 |-> sha256, url |-> url,
                   flavor |-> flavor],
                  from_args(sha256, local_path, url, flavor))

EnsureDistributionResolved ==
    \E h \in Handles, resolves \in BOOLEAN :
        LET r == ensure_distribution_resolved(handles[h], h, allocs[h], resolves)
        IN  Call("ensure_distribution_resolved", h, << >>,
                 Outcome(r.self, r.made, r.ok, IF r.ok THEN "done" ELSE "resolve",
                         IF r.ok THEN NoError ELSE AnyhowError("resolve_distribution failed"),
                         NoValue, r.resolver, << >>), << >>)

CompileBytecode ==
    \E h \in Handles, resolves \in BOOLEAN, creates \in BOOLEAN, compiles \in BOOLEAN :
        Call("compile_bytecode", h, << >>,
             compile_bytecode(handles[h], h, allocs[h],
                              [resolves |-> resolves, creates |-> creates,
                               compiles |-> compiles]), << >>)

ToPythonExecutable ==
    \E h \in Handles, a \in ExeArgs :
        \E env \in Envs(as_python_executable_starlark(handles[h], h, allocs[h], a,
                                                      QuietEnv).stage, {<< >>}),
           configures \in BOOLEAN :
            Call("to_python_executable", h, a,
                 as_python_executable_starlark(handles[h], h, allocs[h], a,
                                               [env EXCEPT !.configures = configures]),
                 << >>)

ExtensionModulesCall ==
    \E h \in Handles, filter \in FilterArgs, preferred_variants \in DictArgs :
        \E env \in Envs(extension_modules(handles[h], h, allocs[h], filter,
                                          preferred_variants, QuietEnv).stage,
                        ExtensionModules) :
            Call("extension_modules", h,
                 [filter |-> filter, preferred_variants |-> preferred_variants],
                 extension_modules(handles[h], h, allocs[h], filter, preferred_variants, env),
                 Returned(extension_modules(handles[h], h, allocs[h], filter,
                                            preferred_variants, env), env))

PipInstall ==
    \E h \in Handles, args \in StringListArgs, extra_envs \in DictArgs :
        \E env \in Envs(pip_install(handles[h], h, allocs[h], args, extra_envs,
                                    QuietEnv).stage, Installed) :
            Call("pip_install", h, [args |-> args, extra_envs |-> extra_envs],
                 pip_install(handles[h], h, allocs[h], args, extra_envs, env),
                 Returned(pip_install(handles[h], h, allocs[h], args, extra_envs, env), env))

ReadPackageRoot ==
    \E h \in Handles, path \in PathArgs, packages \in PackagesArgs :
        \E env \in Envs(read_package_root(handles[h], h, allocs[h], path, packages,
                                          QuietEnv).stage, Discovered) :
            Call("read_package_root", h, [packages |-> packages, path |-> path],
                 read_package_root(handles[h], h, allocs[h], path, packages, env),
                 Returned(read_package_root(handles[h], h, allocs[h], path, packages, env),
                          env))

ReadVirtualenv ==
    \E h \in Handles, path \in PathArgs :
        \E env \in Envs(read_virtualenv(handles[h], h, allocs[h], path, QuietEnv).stage,
                        Installed) :
            Call("read_virtualenv", h, [path |-> path],
                 read_virtualenv(handles[h], h, allocs[h], path, env),
                 Returned(read_virtualenv(handles[h], h, allocs[h], path, env), env))

PackageResources ==
    \E h \in Handles, include_test \in BoolArgs :
        \E env \in Envs(package_resources(handles[h], h, allocs[h], include_test,
                                          QuietEnv).stage, ResourceDatas) :
            Call("package_resources", h, [include_test |-> include_test],
                 package_resources(handles[h], h, allocs[h], include_test, env),
                 Returned(package_resources(handles[h], h, allocs[h], include_test, env),
                          env))

SetupPyInstall ==
    \E h \in Handles, package_path \in PathArgs, extra_envs \in DictArgs,
       extra_global_arguments \in OptionalListArgs :
        \E env \in Envs(setup_py_install(handles[h], h, allocs[h], package_path, extra_envs,
                                         extra_global_arguments, QuietEnv).stage,
                        Installed) :
            Call("setup_py_install", h,
                 [extra_envs |-> extra_envs, package_path |-> package_path,
                  extra_global_arguments |-> extra_global_arguments],
                 setup_py_install(handles[h], h, allocs[h], package_path, extra_envs,
                                  extra_global_arguments, env),
                 Returned(setup_py_install(handles[h], h, allocs[h], package_path, extra_envs,
                                           extra_global_arguments, env), env))

SourceModulesCall ==
    \E h \in Handles :
        \E env \in Envs("resolve", SourceModules) :
            Call("source_modules", h, << >>,
                 source_modules(handles[h], h, allocs[h], env),
                 Returned(source_modules(handles[h], h, allocs[h], env), env))

Next ==
    \/ DefaultPythonDistribution
    \/ FromArgs
    \/ EnsureDistributionResolved
    \/ CompileBytecode
    \/ ToPythonExecutable
    \/ ExtensionModulesCall
    \/ PipInstall
    \/ ReadPackageRoot
    \/ ReadVirtualenv
    \/ PackageResources
    \/ SetupPyInstall
    \/ SourceModulesCall

Spec == Init /\ [][Next]_vars

PairSpec == PairInit /\ [][Next]_vars

(***************************************************************************)
(* Properties.                                                             *)
(***************************************************************************)
CapabilityOps ==
    {"to_python_executable", "extension_modules", "pip_install", "read_package_root",
     "read_virtualenv", "package_resources", "setup_py_install", "source_modules"}

Resolved(h) == handles[h].distribution # NoDistribution

\* C1: once a handle is resolved, no later call on it invokes the external
\* resolver; the call that resolves it invokes the resolver exactly once; and
\* a later ensure_distribution_resolved() returns Ok and changes nothing.
ResolverInvokedOnce ==
    [][\A h \in Handles :
          /\ (Resolved(h) /\ last'.self = h) => last'.resolver = << >>
          /\ (~Resolved(h) /\ handles'[h].distribution # NoDistribution)
                => (last'.self = h /\ Len(last'.resolver) = 1)
          /\ (Resolved(h) /\ last'.self = h /\ last'.op = "ensure_distribution_resolved")
                => (last'.ok /\ handles'[h] = handles[h] /\ allocs'[h] = allocs[h])]_vars

\* A second ensure_distribution_resolved() on a resolved handle has returned.
ResolvedTwice ==
    /\ last.op = "ensure_distribution_resolved"
    /\ last.ok
    /\ last.resolver = << >>
    /\ Resolved(last.self)

\* C2: once the distribution slot of a handle holds a snapshot, it holds that
\* snapshot in every later state, whatever call is made and however it ends;
\* only one snapshot is ever created for a handle.
SnapshotNeverReplaced ==
    /\ [](\A h \in Handles : Resolved(h) =>
             (handles[h].distribution = Object(h, 1) /\ allocs[h].snapshots = 1))
    /\ [][\A h \in Handles :
             Resolved(h) => handles'[h].distribution = handles[h].distribution]_vars

\* A call on a resolved handle has failed after the snapshot was set.
FailedOnResolved ==
    /\ last.self \in Handles
    /\ ~last.ok
    /\ last.stage = "collaborator"
    /\ last.resolver = << >>
    /\ Resolved(last.self)

\* C3: a call in which the resolver fails returns an error and leaves the
\* handle Unresolved; the next call on that handle that gets past validation
\* invokes the resolver again with the same flavor, location and destination
\* directory, and if the resolver then succeeds the handle is Resolved.
ResolverFailed == last.self \in Handles /\ last.stage = "resolve"

FailureNotCached ==
    /\ [](ResolverFailed =>
             /\ ~last.ok
             /\ ~Resolved(last.self)
             /\ last.resolver = <<[flavor |-> handles[last.self].flavor,
                                    dest_dir |-> handles[last.self].dest_dir,
                                    source |-> handles[last.self].source]>>)
    /\ [][(ResolverFailed /\ last'.self = last.self /\ last'.stage \notin {"shape", "value"})
             => /\ last'.resolver = last.resolver
                /\ (last'.stage # "resolve" => handles'[last.self].distribution # NoDistribution)
         ]_vars

\* The resolver has failed in a source_modules() call, and the handle is
\* Unresolved.
ResolutionFailed ==
    /\ ResolverFailed
    /\ last.op = "source_modules"
    /\ ~last.ok
    /\ Len(last.resolver) = 1
    /\ ~Resolved(last.self)

\* C4: compile_bytecode() resolves the distribution first and creates at most
\* one compiler per handle: the first call that creates it keeps it, and every
\* later call compiles with that instance and creates none.
CompilerCalls(fn) == {i \in 1..Len(last.collab) : last.collab[i].fn = fn}

OneCompilerPerHandle ==
    /\ [](\A h \in Handles :
             /\ allocs[h].compilers <= 1
             /\ handles[h].compiler # NoCompiler =>
                   (Resolved(h) /\ handles[h].compiler.serial = 1)
             /\ (last.op = "compile_bytecode" /\ last.self = h /\ last.stage # "resolve")
                   => Resolved(h)
             /\ (last.op = "compile_bytecode" /\ last.self = h)
                   => \A i \in CompilerCalls("compile") :
                          last.collab[i].dist = handles[h].compiler)
    /\ [][\A h \in Handles :
             handles[h].compiler # NoCompiler =>
                /\ handles'[h].compiler = handles[h].compiler
                /\ (last'.op = "compile_bytecode" /\ last'.self = h) =>
                      \A i \in 1..Len(last'.collab) :
                          last'.collab[i] = CollabCall("compile", handles[h].compiler)
         ]_vars

\* A compile_bytecode() call has compiled with the compiler an earlier call made.
CompilerReused ==
    /\ last.op = "compile_bytecode"
    /\ last.ok
    /\ last.resolver = << >>
    /\ Len(last.collab) = 1
    /\ last.collab[1].fn = "compile"

\* C5: a capability call whose arguments fail validation (a wrong shape, an
\* unrecognized resources_policy or filter) returns an error, invokes neither
\* the resolver nor a collaborator, and leaves the handle as it was.
ValidationShortCircuits ==
    [][(last'.op \in CapabilityOps /\ last'.stage \in {"shape", "value"})
          => /\ ~last'.ok
             /\ last'.resolver = << >>
             /\ last'.collab = << >>
             /\ handles' = handles
             /\ allocs' = allocs]_vars

\* to_python_executable() with an unrecognized filter has failed on an
\* Unresolved handle.
RejectedBeforeResolution ==
    /\ last.op = "to_python_executable"
    /\ last.stage = "value"
    /\ to_string(last.args.extension_module_filter) = "bogus-filter"
    /\ ~Resolved(last.self)

\* C6: for every capability method, the code of the error a failed
\* collaborator call is reported with differs from the code a failed
\* resolution is reported with.
ResolutionFailureCode ==
    Unresolved(ensure_distribution_resolved(handles[last.self], last.self,
                                            allocs[last.self], FALSE)).err.code

OperationCodeDistinct ==
    (last.op \in CapabilityOps /\ last.stage = "collaborator")
        => last.err.code # ResolutionFailureCode

\* C7: PythonDistribution() with a string for local_path and a string for url
\* (and arguments of the right shape) fails with the message "cannot define
\* both local_path and url", whatever the strings are, and returns no handle.
WellShapedFromArgs ==
    /\ last.op = "PythonDistribution"
    /\ get_type(last.args.sha256) = "string"
    /\ get_type(last.args.local_path) \in {"NoneType", "string"}
    /\ get_type(last.args.url) \in {"NoneType", "string"}
    /\ get_type(last.args.flavor) = "string"

BothLocationsRejected ==
    (/\ WellShapedFromArgs
     /\ get_type(last.args.local_path) # "NoneType"
     /\ get_type(last.args.url) # "NoneType")
        => /\ ~last.ok
           /\ last.err.message = "cannot define both local_path and url"
           /\ last.value = NoHandle

\* Both were given, with a flavor that is no flavor.
BothLocationsGiven ==
    /\ WellShapedFromArgs
    /\ to_string(last.args.local_path) = "local_path_value"
    /\ to_string(last.args.url) = "url_value"
    /\ to_string(last.args.flavor) = "bogus"
    /\ ~last.ok

\* C8: PythonDistribution() with well-shaped arguments and the flavor
\* "standalone": with local_path alone the handle's location is Local
\* {local_path, sha256}; with url alone it is Url {url, sha256}; with neither
\* the call succeeds and the location is Url with the string form of None.
OneAddressingMode ==
    (/\ WellShapedFromArgs
     /\ to_string(last.args.flavor) = "standalone"
     /\ ~(get_type(last.args.local_path) # "NoneType" /\ get_type(last.args.url) # "NoneType"))
        => /\ last.ok
           /\ last.value.source =
                 [sha256 |-> last.args.sha256.str,
                  variant |-> IF get_type(last.args.local_path) = "string"
                              THEN "Local" ELSE "Url",
                  addr |-> CASE get_type(last.args.local_path) = "string"
                                  -> last.args.local_path.str
                             [] get_type(last.args.url) = "string" -> last.args.url.str
                             [] OTHER -> "None"]

\* Neither was given, and the handle came back with the Url variant.
NeitherLocationGiven ==
    /\ WellShapedFromArgs
    /\ get_type(last.args.local_path) = "NoneType"
    /\ get_type(last.args.url) = "NoneType"
    /\ last.ok
    /\ last.value.source.variant = "Url"
    /\ last.value.source.addr = "None"

\* C9: every error of a constructor or a capability method that this file
\* builds (an error past the marshaller's shape checks) has a label naming the
\* operation that failed: the constructor, resolve_distribution() or the method.
ErrorsNameOperation ==
    (/\ last.op \in CapabilityOps \cup {"PythonDistribution", "default_python_distribution"}
     /\ ~last.ok
     /\ last.stage \in {"value", "resolve", "collaborator"})
        => last.err.label \in {last.op \o "()", "resolve_distribution()"}

\* C10: an unrecognized flavor given to a constructor, or an unrecognized
\* filter given to extension_modules() or to_python_executable(), in a call
\* that is valid otherwise, makes the call fail with a message containing the
\* string, and nothing is returned.
ValidOtherwise ==
    CASE last.op = "default_python_distribution" ->
            get_type(last.args.build_target) \in {"NoneType", "string"}
      [] last.op = "PythonDistribution" ->
            /\ WellShapedFromArgs
            /\ ~(get_type(last.args.local_path) # "NoneType"
                    /\ get_type(last.args.url) # "NoneType")
      [] last.op = "extension_modules" ->
            optional_dict_arg("preferred_variants", "string", "string",
                              last.args.preferred_variants) = NoError
      [] last.op = "to_python_executable" ->
            \A f \in DOMAIN ExeDefaults \ {"extension_module_filter"} :
                last.args[f] = ExeDefaults[f]
      [] OTHER -> FALSE

OffendingLiteral ==
    CASE last.op \in {"default_python_distribution", "PythonDistribution"} -> last.args.flavor
      [] last.op = "extension_modules" -> last.args.filter
      [] last.op = "to_python_executable" -> last.args.extension_module_filter
      [] OTHER -> NoneValue

Recognized ==
    IF last.op \in {"default_python_distribution", "PythonDistribution"}
    THEN {"standalone", "standalone_static", "standalone_dynamic"}
    ELSE {"minimal", "all", "no-libraries", "no-gpl"}

UnrecognizedNamesLiteral ==
    (/\ ValidOtherwise
     /\ get_type(OffendingLiteral) = "string"
     /\ to_string(OffendingLiteral) \notin Recognized)
        => /\ ~last.ok
           /\ last.stage = "value"
           /\ Contains(last.err.message, to_string(OffendingLiteral))
           /\ last.value = (IF last.self = 0 THEN NoHandle ELSE NoValue)

\* default_python_distribution("bogus") has failed.
UnknownFlavorRejected ==
    /\ last.op = "default_python_distribution"
    /\ ValidOtherwise
    /\ to_string(last.args.flavor) = "bogus"
    /\ ~last.ok

\* C11: a list-returning method returns either Ok with the complete list
\* marshalled from what its collaborator returned (all of it, or for
\* read_package_root() and package_resources() all of it that passes the
\* filter), or an error and no record at all, at whatever step it fails.
ListOps == CapabilityOps \ {"to_python_executable"}

CompleteList ==
    CASE last.op = "read_package_root" ->
            ToValues(FilterInPackages(last.returned,
                                      [i \in 1..Len(last.args.packages.items) |->
                                          to_string(last.args.packages.items[i])]))
      [] last.op = "package_resources" ->
            ToValues(FilterTests(last.returned, to_string(last.args.include_test) = "True"))
      [] OTHER -> ToValues(last.returned)

AllOrNothing ==
    last.op \in ListOps =>
        IF last.ok
        THEN /\ last.stage = "done"
             /\ last.err = NoError
             /\ Len(last.collab) = 1
             /\ last.value = CompleteList
        ELSE /\ last.stage \in {"shape", "value", "resolve", "collaborator"}
             /\ last.err # NoError
             /\ last.value = NoValue

\* The collaborator of pip_install() has failed, and no record came back.
CollaboratorFailedNoList ==
    /\ last.op = "pip_install"
    /\ ~last.ok
    /\ last.stage = "collaborator"
    /\ last.value = NoValue

\* C12: on one handle, with the resource data its snapshot holds,
\* package_resources(include_test=false) returns a sub-list of
\* package_resources(include_test=true): every record of the first is a record
\* of the second, and the records left out are exactly those whose package is
\* a standard-library test package.  It has strictly fewer records exactly
\* when the snapshot holds a resource of a test package, and the same records
\* otherwise.
PackageResourcesOf(include_test) ==
    package_resources(handles[last.self], last.self, allocs[last.self],
                      BoolValue(include_test), Env(TRUE, TRUE, last.returned)).value

Records(values) == {values[i] : i \in 1..Len(values)}

IsTestRecord(v) == is_stdlib_test_package(v.resource.package)

TestsLeftOut ==
    LET without == PackageResourcesOf(FALSE)
        with == PackageResourcesOf(TRUE)
    IN  /\ Records(without) \subseteq Records(with)
        /\ Records(with) \ Records(without) = {v \in Records(with) : IsTestRecord(v)}
        /\ Len(without) = Cardinality({i \in 1..Len(with) : ~IsTestRecord(with[i])})

SubsetOfPackageResources ==
    (last.op = "package_resources" /\ last.ok) =>
        /\ last.value = PackageResourcesOf(to_string(last.args.include_test) = "True")
        /\ TestsLeftOut
        /\ Len(PackageResourcesOf(FALSE)) <= Len(PackageResourcesOf(TRUE))
        /\ Len(PackageResourcesOf(FALSE)) < Len(PackageResourcesOf(TRUE))
              <=> \E i \in 1..Len(last.returned) :
                      is_stdlib_test_package(last.returned[i].package)

\* As stated: strictly fewer records, whatever the snapshot holds.
StrictSubsetOfPackageResources ==
    (last.op = "package_resources" /\ last.ok) =>
        /\ TestsLeftOut
        /\ Len(PackageResourcesOf(FALSE)) < Len(PackageResourcesOf(TRUE))

\* package_resources() has left the records of test packages out.
TestResourcesLeftOut ==
    /\ last.op = "package_resources"
    /\ last.ok
    /\ to_string(last.args.include_test) = "False"
    /\ Len(last.value) = 2
    /\ Len(last.returned) = 4

\* C13: read_package_root(path, packages) returns the discovered resources
\* that are in, or nested under, one of the named packages (a module by its
\* dotted name, any other resource by its package), each once and in the order
\* find_resources() produced them; it returns no other resource, and the order
\* of the packages argument makes no difference.
PackageNames == {to_string(last.args.packages.items[i]) :
                    i \in 1..Len(last.args.packages.items)}

DottedPath(x) == IF x.kind = "SourceModule" THEN x.name ELSE x.package

Kept == {i \in 1..Len(last.returned) :
            \E p \in PackageNames :
                \/ DottedPath(last.returned[i]) = p
                \/ StartsWith(DottedPath(last.returned[i]), p \o ".")}

\* The k-th index of Kept, counting upwards.
KeptAt(k) == CHOOSE i \in Kept : Cardinality({j \in Kept : j <= i}) = k

Reversed(xs) == [i \in 1..Len(xs) |-> xs[Len(xs) + 1 - i]]

DiscoveryOrderKept ==
    (last.op = "read_package_root" /\ last.ok) =>
        /\ Len(last.value) = Cardinality(Kept)
        /\ \A k \in 1..Len(last.value) :
               last.value[k] = python_resource_to_value(last.returned[KeptAt(k)])
        /\ last.value =
              read_package_root(handles[last.self], last.self, allocs[last.self],
                                last.args.path, ListValue(Reversed(last.args.packages.items)),
                                Env(TRUE, TRUE, last.returned)).value

\* read_package_root(.., packages=["foo", "bar"]) has returned bar before foo,
\* as they were discovered, and has left baz and extra out.
DiscoveredBarThenFoo ==
    /\ last.op = "read_package_root"
    /\ last.ok
    /\ to_string(last.args.packages.items[1]) = "foo"
    /\ Len(last.returned) = 4
    /\ Len(last.value) = 2
    /\ last.value[1].resource.name = "bar"
    /\ last.value[2].resource.name = "foo"

\* C14: default_python_distribution() with a recognized flavor ("standalone"
\* when the script gives none) looks the registry up for that flavor and for
\* the build_target given, or for BUILD_TARGET_TRIPLE of the environment when
\* none is given: if the registry knows the pair, the handle returned has that
\* flavor and the registry's location for the pair and is Unresolved; if not,
\* the call fails and returns no handle.
FlavorOf(v) ==
    CASE v = "standalone" -> "Standalone"
      [] v = "standalone_static" -> "StandaloneStatic"
      [] v = "standalone_dynamic" -> "StandaloneDynamic"
      [] OTHER -> ""

TripleAsked ==
    IF get_type(last.args.build_target) = "NoneType" THEN BUILD_TARGET_TRIPLE
    ELSE to_string(last.args.build_target)

RegistryLocationUsed ==
    (/\ last.op = "default_python_distribution"
     /\ get_type(last.args.flavor) = "string"
     /\ get_type(last.args.build_target) \in {"NoneType", "string"}
     /\ FlavorOf(to_string(last.args.flavor)) \in DistributionFlavor)
        => IF <<FlavorOf(to_string(last.args.flavor)), TripleAsked>> \in KnownDistributions
           THEN /\ last.ok
                /\ last.value.flavor = FlavorOf(to_string(last.args.flavor))
                /\ last.value.source =
                      find_distribution(TripleAsked, FlavorOf(to_string(last.args.flavor)))
                /\ last.value.distribution = NoDistribution
                /\ last.value.compiler = NoCompiler
           ELSE /\ ~last.ok
                /\ last.value = NoHandle

\* default_python_distribution() has returned the handle of the Standalone
\* distribution for the triple of the environment.
DefaultForAmbientTriple ==
    /\ last.op = "default_python_distribution"
    /\ to_string(last.args.flavor) = "standalone"
    /\ get_type(last.args.build_target) = "NoneType"
    /\ last.ok
    /\ last.value.flavor = "Standalone"
    /\ last.value.source = find_distribution(BUILD_TARGET_TRIPLE, "Standalone")

\* C15: a capability call validates, then resolves, then delegates.  It
\* invokes the resolver only once its arguments are valid, and its collaborator
\* at most once, on the snapshot the handle holds, after resolution; a call in
\* which resolution fails ends with the resolution error and has invoked no
\* collaborator; a call that succeeds has invoked its collaborator once.
ValidateResolveDelegate ==
    last.op \in CapabilityOps =>
        /\ Len(last.collab) <= 1
        /\ Len(last.resolver) <= 1
        /\ last.stage \in {"shape", "value"} => (last.resolver = << >> /\ last.collab = << >>)
        /\ last.collab # << >> =>
              /\ Resolved(last.self)
              /\ last.collab[1].dist = handles[last.self].distribution
              /\ last.stage \in {"collaborator", "done"}
        /\ last.stage = "resolve" =>
              /\ ~last.ok
              /\ Len(last.resolver) = 1
              /\ last.collab = << >>
              /\ last.err.label = "resolve_distribution()"
              /\ ~Resolved(last.self)
        /\ last.ok => (Len(last.collab) = 1 /\ Resolved(last.self))

\* Resolution has failed in a read_virtualenv() call, which has ended there.
EndedAtResolution ==
    /\ last.op = "read_virtualenv"
    /\ last.stage = "resolve"
    /\ ~last.ok
    /\ Len(last.resolver) = 1
    /\ last.collab = << >>

\* C16: PythonDistribution() given both local_path and url fails with the
\* shape error when one of its four arguments has the wrong shape, and
\* otherwise with "cannot define both local_path and url", whether or not the
\* flavor string is a flavor: the check stands after the four shape checks and
\* before the flavor is parsed.
BothPresent ==
    /\ last.op = "PythonDistribution"
    /\ get_type(last.args.local_path) # "NoneType"
    /\ get_type(last.args.url) # "NoneType"

ExclusionAfterShapes ==
    BothPresent =>
        /\ ~last.ok
        /\ last.value = NoHandle
        /\ IF WellShapedFromArgs
           THEN /\ last.stage = "value"
                /\ last.err.message = "cannot define both local_path and url"
                /\ ~Contains(last.err.message, "distribution flavor")
           ELSE /\ last.stage = "shape"
                /\ last.err.code = INCORRECT_PARAMETER_TYPE_ERROR_CODE
                /\ StartsWith(last.err.message, "function expects ")
                /\ last.err.message # "cannot define both local_path and url"

\* Both were given along with a flavor that is no string, and the call has
\* failed at the shape check of flavor.
BothGivenWithBadShape ==
    /\ BothPresent
    /\ get_type(last.args.sha256) = "string"
    /\ get_type(last.args.local_path) = "string"
    /\ get_type(last.args.url) = "string"
    /\ get_type(last.args.flavor) = "bool"
    /\ last.stage = "shape"
    /\ Contains(last.err.message, "for flavor")

\* C17: in every state, a handle whose compiler slot is filled is Resolved,
\* and its compiler was created for it, from the snapshot it holds; no two
\* handles hold the same compiler or the same snapshot; and a handle a
\* constructor returns has both slots empty.
CompilerOfOwnSnapshot ==
    /\ \A h \in Handles :
           /\ handles[h].compiler # NoCompiler =>
                 /\ Resolved(h)
                 /\ handles[h].compiler.owner = h
                 /\ handles[h].compiler.dist = handles[h].distribution
           /\ Resolved(h) => handles[h].distribution.owner = h
    /\ \A h1, h2 \in Handles :
           (h1 # h2 /\ handles[h1].compiler # NoCompiler) =>
               /\ handles[h1].compiler # handles[h2].compiler
               /\ handles[h1].compiler.dist # handles[h2].distribution
    /\ (last.self = 0 /\ last.op # "" /\ last.ok) =>
           (last.value.distribution = NoDistribution /\ last.value.compiler = NoCompiler)

\* Two handles hold a compiler each.
TwoCompilers ==
    /\ Cardinality(Handles) >= 2
    /\ \A h \in Handles : handles[h].compiler # NoCompiler

\* C18: a compile_bytecode() call in which create_bytecode_compiler() fails
\* returns that error and leaves the handle Resolved with an empty compiler
\* slot, and the next compile_bytecode() on the handle calls
\* create_bytecode_compiler() again, on the same snapshot, without calling the
\* resolver; a call in which compile() fails keeps the compiler, and the next
\* compile_bytecode() compiles with it and creates none.
CreationFailedIn(call) == call.op = "compile_bytecode" /\ call.stage = "create"

CompileFailedIn(call) == call.op = "compile_bytecode" /\ call.stage = "collaborator"

CompileFailuresNotCached ==
    /\ [](CreationFailedIn(last) =>
             /\ ~last.ok
             /\ last.err = AnyhowError("create_bytecode_compiler failed")
             /\ Resolved(last.self)
             /\ handles[last.self].compiler = NoCompiler
             /\ allocs[last.self].compilers = 0)
    /\ [](CompileFailedIn(last) =>
             /\ ~last.ok
             /\ Resolved(last.self)
             /\ handles[last.self].compiler # NoCompiler)
    /\ [][(CreationFailedIn(last) /\ last'.op = "compile_bytecode" /\ last'.self = last.self)
             => /\ last'.resolver = << >>
                /\ handles'[last.self].distribution = handles[last.self].distribution
                /\ last'.collab # << >>
                /\ last'.collab[1] = CollabCall("create_bytecode_compiler",
                                                 handles[last.self].distribution)
                /\ last'.stage # "create" => handles'[last.self].compiler # NoCompiler
         ]_vars
    /\ [][(CompileFailedIn(last) /\ last'.op = "compile_bytecode" /\ last'.self = last.self)
             => /\ last'.resolver = << >>
                /\ handles'[last.self] = handles[last.self]
                /\ allocs'[last.self] = allocs[last.self]
                /\ last'.collab = <<CollabCall("compile", handles[last.self].compiler)>>
         ]_vars

\* create_bytecode_compiler() has failed on a handle the same call resolved.
CreationFailed ==
    /\ CreationFailedIn(last)
    /\ Len(last.resolver) = 1
    /\ Resolved(last.self)
    /\ handles[last.self].compiler = NoCompiler

\* C19: default_python_distribution() takes "standalone", "standalone_static"
\* and "standalone_dynamic" as flavors (it then fails only if the registry has
\* no such distribution) and refuses any other string as unknown;
\* PythonDistribution() takes "standalone" alone and fails with "invalid
\* distribution flavor <value>" for any other string, the two other flavors
\* included; so every handle PythonDistribution() returns has flavor Standalone.
FlavorGiven == to_string(last.args.flavor)

ExplicitOnlyStandalone ==
    /\ (/\ last.op = "PythonDistribution"
        /\ WellShapedFromArgs
        /\ ~(get_type(last.args.local_path) # "NoneType"
                /\ get_type(last.args.url) # "NoneType"))
           => IF FlavorGiven = "standalone"
              THEN last.ok /\ last.value.flavor = "Standalone"
              ELSE /\ ~last.ok
                   /\ last.err.message = "invalid distribution flavor " \o FlavorGiven
                   /\ last.value = NoHandle
    /\ (last.op = "PythonDistribution" /\ last.ok) => last.value.flavor = "Standalone"
    /\ (/\ last.op = "default_python_distribution"
        /\ get_type(last.args.flavor) = "string"
        /\ get_type(last.args.build_target) \in {"NoneType", "string"})
           => IF FlavorGiven \in {"standalone", "standalone_static", "standalone_dynamic"}
              THEN /\ ~Contains(last.err.message, "distribution flavor")
                   /\ last.ok <=> <<FlavorOf(FlavorGiven), TripleAsked>> \in KnownDistributions
                   /\ last.ok => last.value.flavor = FlavorOf(FlavorGiven)
              ELSE /\ ~last.ok
                   /\ last.err.message = "unknown distribution flavor " \o FlavorGiven

\* PythonDistribution(.., flavor="standalone_static") has been refused.
StaticFlavorRefused ==
    /\ last.op = "PythonDistribution"
    /\ WellShapedFromArgs
    /\ get_type(last.args.url) = "NoneType"
    /\ FlavorGiven = "standalone_static"
    /\ ~last.ok
    /\ last.err.message = "invalid distribution flavor standalone_static"

====
